---- MODULE Spec2Model ----
(***************************************************************************)
(* Model of the data-analysis agent: the LangGraph state machine of        *)
(* agent.py (DataAnalysisAgent) and the pure helpers of tools.py           *)
(* (get_data_summary, generate_analysis_tasks, create_analysis_code,       *)
(* safe_code_execution).                                                   *)
(*                                                                         *)
(* A dataset is the sequence of its columns' dtype tags; a column is named *)
(* by its position.  A text is a sequence of tokens: a fence token stands  *)
(* for the three back-ticks (with or without the python tag), "x" for a    *)
(* non-blank character and " " for a blank one.                            *)
(***************************************************************************)
EXTENDS Integers, Sequences, FiniteSets, TLC

VARIABLES
    dataframe,            \* AnalysisState["dataframe"]
    data_summary,         \* AnalysisState["data_summary"]
    plan,                 \* AnalysisState["plan"]
    current_task_index,   \* AnalysisState["current_task_index"]
    code_string,          \* AnalysisState["code_string"]
    execution_results,    \* AnalysisState["execution_results"]
    report,               \* AnalysisState["report"]
    error_count,          \* AnalysisState["error_count"]
    max_retries,          \* AnalysisState["max_retries"]
    completed,            \* AnalysisState["completed"]
    node,                 \* the graph node that runs next ("analyze" before invoke)
    steps,                \* node steps the graph has run in this invoke
    visited,              \* the nodes that have run, in order of first run
    outcome,              \* what analyze handed to its caller
    collaborator,         \* the text-generation service of this run
    odd_left,             \* ill-formed responses and errors it may still give
    failures_left,        \* executions that may still raise in this run
    llm_response,         \* the collaborator's answer to the node that ran last
    exec_call,            \* what the last call of safe_code_execution did
    results_digest        \* results_summary of reporter_node's prompt

vars == <<dataframe, data_summary, plan, current_task_index, code_string,
          execution_results, report, error_count, max_retries, completed,
          node, steps, visited, outcome, collaborator, odd_left, failures_left,
          llm_response, exec_call, results_digest>>

env_vars == <<collaborator, odd_left, failures_left, llm_response, exec_call,
              results_digest>>

state_vars == <<dataframe, data_summary, plan, current_task_index, code_string,
                execution_results, report, error_count, max_retries, completed>>

-----------------------------------------------------------------------------
(* Bounds of the model *)

MaxCols == 5
MaxOdd == 2
MaxFailures == 6

\* the assignments of a code text
MaxBindings == 2

\* the tokens of a response
MaxTokens == 4

(* Program constants *)

TaskCap == 5
PlannerTruncation == 10
InitialMaxRetries == 3
PlannerMaxRetries == 3
RecursionLimit == 100

-----------------------------------------------------------------------------
(* Values *)

NoDataframe == <<"<None>">>
NoSummary == [keys |-> {"<None>"}, dtypes |-> <<>>,
              numeric_stats |-> <<>>, categorical_info |-> <<>>]
NoPlan == <<>>
NoCode == <<"<None>">>
NoReport == "<None>"
NoColumn == 0

DTypes == {"number", "object", "category", "other"}

RECURSIVE SeqsUpTo(_, _)
SeqsUpTo(S, n) ==
    IF n = 0 THEN {<<>>}
    ELSE LET shorter == SeqsUpTo(S, n - 1)
         IN  shorter \cup {Append(s, e) : s \in {t \in shorter : Len(t) = n - 1}, e \in S}

Datasets == SeqsUpTo(DTypes, MaxCols)

(* The datasets of the full runs: the run depends on the dataset only      *)
(* through the plan, so one dataset with every kind of column is used.     *)
RunDatasets == {<<"number", "number", "object">>}

-----------------------------------------------------------------------------
(* tools.py *)

\* df.select_dtypes(include=kinds).columns: the columns of those dtypes, in order
select_dtypes(df, kinds) ==
    LET F[i \in 0..Len(df)] ==
            IF i = 0 THEN <<>>
            ELSE IF df[i] \in kinds THEN Append(F[i - 1], i) ELSE F[i - 1]
    IN  F[Len(df)]

\* mutant: the categorical columns are every column that is not "other"
get_data_summary_mixed(df) ==
    LET numeric_cols == select_dtypes(df, {"number"})
        categorical_cols == select_dtypes(df, {"number", "object", "category"})
    IN  [keys |-> {"shape", "columns", "dtypes", "null_counts",
                   "duplicate_count", "memory_usage"}
                  \cup (IF Len(numeric_cols) > 0 THEN {"numeric_stats"} ELSE {})
                  \cup (IF Len(categorical_cols) > 0 THEN {"categorical_info"} ELSE {}),
         dtypes |-> df,
         numeric_stats |-> numeric_cols,
         categorical_info |-> categorical_cols]

get_data_summary(df) ==
    LET numeric_cols == select_dtypes(df, {"number"})
        categorical_cols == select_dtypes(df, {"object", "category"})
    IN  [keys |-> {"shape", "columns", "dtypes", "null_counts",
                   "duplicate_count", "memory_usage"}
                  \cup (IF Len(numeric_cols) > 0 THEN {"numeric_stats"} ELSE {})
                  \cup (IF Len(categorical_cols) > 0 THEN {"categorical_info"} ELSE {}),
         dtypes |-> df,
         numeric_stats |-> numeric_cols,
         categorical_info |-> categorical_cols]

Task(type, col, descr_arg) ==
    [task_type |-> type, column |-> col,
     description |-> [kind |-> type, arg |-> descr_arg]]

\* the for loop of lines 219-225 over categorical_cols[i..]
RECURSIVE bar_chart_loop(_, _, _)
bar_chart_loop(tasks, cols, i) ==
    IF i > Len(cols) THEN tasks
    ELSE bar_chart_loop(
            IF Len(tasks) < TaskCap
            THEN Append(tasks, Task("bar_chart", cols[i], cols[i]))
            ELSE tasks,
            cols, i + 1)

\* mutant: the plan is not padded
pad_loop_none(tasks) == tasks

\* the while loop of lines 231-235
RECURSIVE pad_loop(_)
pad_loop(tasks) ==
    IF Len(tasks) < TaskCap
    THEN pad_loop(Append(tasks, Task("basic_info", NoColumn, Len(tasks) + 1)))
    ELSE tasks

\* mutant: the correlation matrix is planned from one numeric column on
generate_analysis_tasks_corr(summary) ==
    LET t0 == <<Task("basic_info", NoColumn, 0)>>
        has_num == "numeric_stats" \in summary.keys
        numeric_cols == summary.numeric_stats
        hist(tasks, i) ==
            IF has_num /\ Len(numeric_cols) > i - 1 /\ Len(tasks) < TaskCap
            THEN Append(tasks, Task("histogram", numeric_cols[i], numeric_cols[i]))
            ELSE tasks
        t3 == hist(hist(hist(t0, 1), 2), 3)
        t4 == IF has_num /\ Len(numeric_cols) > 0 /\ Len(t3) < TaskCap
              THEN Append(t3, Task("correlation_matrix", NoColumn, 0))
              ELSE t3
        t5 == IF "categorical_info" \in summary.keys /\ Len(t4) < TaskCap
              THEN bar_chart_loop(t4, summary.categorical_info, 1)
              ELSE t4
        t6 == SubSeq(t5, 1, IF Len(t5) < TaskCap THEN Len(t5) ELSE TaskCap)
    IN  pad_loop(t6)

generate_analysis_tasks(summary) ==
    LET t0 == <<Task("basic_info", NoColumn, 0)>>
        has_num == "numeric_stats" \in summary.keys
        numeric_cols == summary.numeric_stats
        t1 == IF has_num /\ Len(numeric_cols) > 0 /\ Len(t0) < TaskCap
              THEN Append(t0, Task("histogram", numeric_cols[1], numeric_cols[1]))
              ELSE t0
        t2 == IF has_num /\ Len(numeric_cols) > 1 /\ Len(t1) < TaskCap
              THEN Append(t1, Task("histogram", numeric_cols[2], numeric_cols[2]))
              ELSE t1
        t3 == IF has_num /\ Len(numeric_cols) > 2 /\ Len(t2) < TaskCap
              THEN Append(t2, Task("histogram", numeric_cols[3], numeric_cols[3]))
              ELSE t2
        t4 == IF has_num /\ Len(numeric_cols) > 1 /\ Len(t3) < TaskCap
              THEN Append(t3, Task("correlation_matrix", NoColumn, 0))
              ELSE t3
        t5 == IF "categorical_info" \in summary.keys /\ Len(t4) < TaskCap
              THEN bar_chart_loop(t4, summary.categorical_info, 1)
              ELSE t4
        t6 == SubSeq(t5, 1, IF Len(t5) < TaskCap THEN Len(t5) ELSE TaskCap)
    IN  pad_loop(t6)

\* the template of the task's type: never the empty text
create_analysis_code(task) ==
    IF task.task_type \in {"basic_info", "histogram", "correlation_matrix",
                           "scatter_matrix", "bar_chart"}
    THEN <<"x", task.task_type, ToString(task.column)>>
    ELSE <<"#", task.task_type>>

-----------------------------------------------------------------------------
(* Texts of the text-generation collaborator *)

FencePython == "<fence python>"
Fence == "<fence>"
Fences == {Fence, FencePython}
Blank == " "

\* s in content
Contains(content, toks) == \E i \in 1..Len(content) : content[i] \in toks

\* content.find(s, start): the first position >= start holding s, 0 when there is none
Find(content, toks, start) ==
    IF \E i \in start..Len(content) : content[i] \in toks
    THEN CHOOSE i \in start..Len(content) :
            content[i] \in toks /\ \A j \in start..(i - 1) : content[j] \notin toks
    ELSE 0

\* content[code_start:code_end], code_end = -1 (not found) dropping the last character
Slice(content, code_start, code_end) ==
    IF code_end = 0
    THEN SubSeq(content, code_start, Len(content) - 1)
    ELSE SubSeq(content, code_start, code_end - 1)

RECURSIVE lstrip(_)
lstrip(text) ==
    IF text # <<>> /\ Head(text) = Blank THEN lstrip(Tail(text)) ELSE text

RECURSIVE rstrip(_)
rstrip(text) ==
    IF text # <<>> /\ text[Len(text)] = Blank
    THEN rstrip(SubSeq(text, 1, Len(text) - 1))
    ELSE text

strip(text) == rstrip(lstrip(text))

\* lines 192-201 (coder_node) and 287-296 (code_revision_node): the text of
\* the first python-tagged block, else of the first block, else no_fence
extract_code(content, no_fence) ==
    IF Contains(content, {FencePython})
    THEN LET code_start == Find(content, {FencePython}, 1) + 1
             code_end == Find(content, Fences, code_start)
         IN  strip(Slice(content, code_start, code_end))
    ELSE IF Contains(content, Fences)
    THEN LET code_start == Find(content, Fences, 1) + 1
             code_end == Find(content, Fences, code_start)
         IN  strip(Slice(content, code_start, code_end))
    ELSE no_fence

\* self.llm.invoke raised
LLMError == <<"<error>">>

\* the node did not call self.llm.invoke
NoResponse == <<"<none>">>

\* the responses of the collaborator in a run: a python block with code (the
\* response it is asked for), an empty python block, bare code, no text
WellFormed == {<<FencePython, "x", Fence>>}
Responses == WellFormed \cup {<<FencePython, Fence>>, <<"x">>, <<>>}

\* The collaborator of a run is "responsive" (it answers as asked, but for
\* at most MaxOdd errors or ill-formed responses) or "degenerate" (every
\* call fails or returns no code, and no report). An "inventive" one answers
\* as asked, with code of every behaviour. A "verbose" one answers as asked
\* but for the odd responses, which are any text of at most MaxTokens tokens.
\* A "steady" one answers every call as asked and a "silent" one fails every
\* call: with either, no code text is empty.
Collaborators == {"responsive", "degenerate"}

\* the texts of a response: fences, code characters and blanks
Tokens == {FencePython, Fence, "x", "y", Blank}
AllResponses == SeqsUpTo(Tokens, MaxTokens)

LLMOutcomes ==
    IF collaborator = "degenerate"
    THEN {LLMError, <<FencePython, Fence>>, <<>>}
    ELSE IF collaborator = "silent"
    THEN {LLMError}
    ELSE IF collaborator = "verbose" /\ odd_left > 0
    THEN AllResponses \cup {LLMError}
    ELSE IF collaborator = "responsive" /\ odd_left > 0
    THEN Responses \cup {LLMError}
    ELSE WellFormed

\* the collaborator has answered with response
Answered(response) ==
    /\ odd_left' = IF /\ odd_left > 0
                      /\ \/ /\ collaborator = "responsive"
                            /\ response \in (Responses \ WellFormed) \cup {LLMError}
                         \/ /\ collaborator = "verbose"
                            /\ response \in (AllResponses \ WellFormed) \cup {LLMError}
                   THEN odd_left - 1 ELSE odd_left
    /\ llm_response' = response
    /\ UNCHANGED <<collaborator, failures_left, exec_call>>

\* the report calls: a text, or LLMError
ReportOutcomes(texts) ==
    IF collaborator \in {"degenerate", "silent"} THEN {LLMError}
    ELSE IF odd_left > 0 THEN {<<t>> : t \in texts} \cup {LLMError}
    ELSE {<<t>> : t \in texts}

\* the report texts the collaborator returns
ReportTexts == {"report"}
ReviewTexts == {"reviewed"}
FallbackReport == "fallback"

-----------------------------------------------------------------------------
(* tools.py: safe_code_execution *)

\* the names of exec_globals before exec, lines 96-104
InitialNames == <<"__builtins__", "pd", "px", "go", "ff", "np", "df">>

\* lines 84-90
safe_builtin_names ==
    {"len", "range", "enumerate", "zip", "map", "filter", "sum", "min", "max",
     "abs", "round", "int", "float", "str", "bool", "list", "dict", "tuple",
     "set", "print", "type", "isinstance", "__import__", "getattr", "hasattr",
     "setattr", "delattr", "dir", "vars", "sorted", "reversed", "any", "all"}

\* mutant: the code runs with every built-in
resolves_builtins(name) ==
    \/ name \in safe_builtin_names \cup {"open", "eval"}
    \/ \E k \in 1..Len(InitialNames) : InitialNames[k] = name

\* lines 92-104: a name the code reads is found in exec_globals or in its
\* __builtins__
resolves(name) ==
    \/ name \in safe_builtin_names
    \/ \E k \in 1..Len(InitialNames) : InitialNames[k] = name

\* what running the code does: beh.copy_ok, whether df.copy() returned;
\* beh.uses, a name the code reads first; beh.mutates, whether the code changes
\* the object bound to df in place; beh.raises, what the code raises when
\* the name is found; the captured streams; the error's text; the bindings the
\* code adds to the namespace
Behaviour(copy_ok, raises, stdout, stderr, message, bindings) ==
    [copy_ok |-> copy_ok, raises |-> raises, stdout |-> stdout,
     stderr |-> stderr, message |-> message, bindings |-> bindings,
     uses |-> "print", mutates |-> FALSE]

\* safe_code_execution has not been called
NoCall == Behaviour(TRUE, "<none>", "", "", "", <<>>)

NoBinding == <<>>
FigBinding == <<[name |-> "fig", kind |-> "figure"]>>

\* the values code binds: a plotly Figure, a number or string, a DataFrame
Kinds == {"figure", "plain", "frame"}
BoundNames == {"fig", "n", "df"}
UsedNames == {"print", "df", "open", "eval"}

\* the code an inventive collaborator writes: code that reads a name, may
\* change df in place, may bind a figure and may raise; and code that only
\* binds up to MaxBindings names
ExecBehaviours ==
    { [copy_ok |-> TRUE, raises |-> r, stdout |-> "out", stderr |-> e,
       message |-> IF r = "none" THEN "" ELSE "msg", bindings |-> b,
       uses |-> u, mutates |-> m] :
         r \in {"none", "Exception", "BaseException"}, e \in {"", "err"},
         b \in {NoBinding, FigBinding}, u \in UsedNames, m \in BOOLEAN }
    \cup
    { Behaviour(TRUE, "none", "out", "", "", b) :
         b \in SeqsUpTo([name : BoundNames, kind : Kinds], MaxBindings) }

\* line 120: what exec(code, exec_globals) raises, and str(e)
exec(beh) ==
    IF ~resolves(beh.uses)
    THEN [raises |-> "Exception", message |-> "NameError"]
    ELSE [raises |-> beh.raises, message |-> beh.message]

\* the executions of a run: at most failures_left of them raise an Exception
RunBehaviours ==
    { beh \in (IF collaborator = "inventive" THEN ExecBehaviours
               ELSE { Behaviour(TRUE, "none", "out", "", "", FigBinding),
                      Behaviour(TRUE, "BaseException", "out", "", "exit", NoBinding),
                      Behaviour(TRUE, "Exception", "out", "err", "msg", NoBinding) })
            : exec(beh).raises = "Exception" => failures_left > 0 }
    \cup {Behaviour(FALSE, "none", "", "", "copy", NoBinding)}

\* the code has run with behaviour beh
Executed(beh) ==
    /\ failures_left' = IF beh.copy_ok /\ exec(beh).raises = "Exception"
                        THEN failures_left - 1 ELSE failures_left
    /\ exec_call' = beh
    /\ llm_response' = NoResponse
    /\ UNCHANGED <<collaborator, odd_left, results_digest>>

\* a node that calls neither the collaborator nor the Executor has run
NoCallMade ==
    /\ llm_response' = NoResponse
    /\ UNCHANGED <<collaborator, odd_left, failures_left, exec_call, results_digest>>

\* what leaves safe_code_execution: df.copy() raises before the try block, and
\* except Exception does not catch a BaseException
execution_raises(beh) ==
    IF ~beh.copy_ok THEN "Exception"
    ELSE IF exec(beh).raises = "BaseException" THEN "BaseException"
    ELSE "none"

\* mutant: the code is handed the caller's DataFrame
exposed_df_shared(df) == [owner |-> "caller", data |-> df]

\* line 103: the object bound to df in exec_globals
exposed_df(df) == [owner |-> "copy", data |-> df]

\* the caller's DataFrame after the call: code that changes its df in place
\* (here: adds a column) changes the object it was handed
caller_df(df, handle, beh) ==
    IF beh.copy_ok /\ resolves(beh.uses) /\ beh.mutates /\ handle.owner = "caller"
    THEN Append(df, "other")
    ELSE df

\* lines 96-104: exec_globals before exec
initial_namespace ==
    [i \in 1..Len(InitialNames) |->
        [name |-> InitialNames[i],
         kind |-> IF InitialNames[i] = "df" THEN "frame" ELSE "module"]]

\* an assignment of the code: exec_globals[b.name] = value
bind(ns, b) ==
    IF \E i \in 1..Len(ns) : ns[i].name = b.name
    THEN [i \in 1..Len(ns) |-> IF ns[i].name = b.name THEN b ELSE ns[i]]
    ELSE Append(ns, b)

\* the namespace after exec: the initial names, then the code's bindings
namespace_after(beh) ==
    LET F[i \in 0..Len(beh.bindings)] ==
            IF i = 0 THEN initial_namespace ELSE bind(F[i - 1], beh.bindings[i])
    IN  F[Len(beh.bindings)]

\* what lines 136-140 read of a value: the name of its type and three attributes
features(kind) ==
    [plotly |-> kind = "figure", figure |-> kind = "figure",
     graph |-> kind = "figure", to_dict |-> kind \in {"figure", "frame"},
     show |-> kind = "figure", data |-> kind = "figure"]

\* lines 136-140
is_plotly_figure(value) ==
    \/ value.plotly /\ (value.figure \/ value.graph)
    \/ value.to_dict /\ value.show /\ value.data

\* lines 130-148, the names collected as figures
collect_figures(ns) ==
    LET F[i \in 0..Len(ns)] ==
            IF i = 0 THEN <<>>
            ELSE IF is_plotly_figure(features(ns[i].kind))
                 THEN Append(F[i - 1], ns[i].name)
                 ELSE F[i - 1]
    IN  F[Len(ns)]

\* mutant: every name that is not a figure is kept
collect_variables_all(ns) ==
    { ns[i].name : i \in { j \in 1..Len(ns) :
        ~is_plotly_figure(features(ns[j].kind)) } }

\* lines 149-151, the names kept as other variables
collect_variables(ns) ==
    { ns[i].name : i \in { j \in 1..Len(ns) :
        /\ ~is_plotly_figure(features(ns[j].kind))
        /\ ns[j].name \notin {"__builtins__", "pd", "px", "go", "ff", "df", "np"} } }

\* the result dict of a call that returns
safe_code_execution(code, df, task_info, beh) ==
    IF exec(beh).raises = "none"
    THEN [success |-> TRUE, output |-> beh.stdout, error |-> "",
          figures |-> collect_figures(namespace_after(beh)),
          variables |-> collect_variables(namespace_after(beh))]
    ELSE [success |-> FALSE, output |-> beh.stderr, error |-> exec(beh).message,
          figures |-> <<>>, variables |-> {}]

-----------------------------------------------------------------------------
(* agent.py: the routing functions *)

Last(seq) == seq[Len(seq)]

\* mutant: the task is given up only above the limit
decide_after_execution_strict(results, count, retries) ==
    IF results = <<>> THEN "error"
    ELSE IF ~Last(results).result.success
         THEN IF count > retries THEN "next_task" ELSE "retry"
         ELSE "next_task"

\* mutant: a failed task is never given up
decide_after_execution_persist(results, count, retries) ==
    IF results = <<>> THEN "error"
    ELSE IF ~Last(results).result.success THEN "retry" ELSE "next_task"

\* mutant: the last attempt's success is not looked at
decide_after_execution_blind(results, count, retries) ==
    IF results = <<>> THEN "error"
    ELSE IF count >= retries THEN "next_task" ELSE "retry"

decide_after_execution(results, count, retries) ==
    IF results = <<>> THEN "error"
    ELSE IF ~Last(results).result.success
         THEN IF count >= retries THEN "next_task" ELSE "retry"
         ELSE "next_task"

\* mutant: the run is complete only when the cursor is past the plan's length
decide_next_action_late(index, tasks) ==
    IF index > Len(tasks) THEN "complete" ELSE "continue"

decide_next_action(index, tasks) ==
    IF index >= Len(tasks) THEN "complete" ELSE "continue"

\* the path maps of add_conditional_edges, lines 78-96
after_execution_edge(route) ==
    CASE route = "retry" -> "code_revision"
      [] route = "next_task" -> "task_manager"
      [] route = "error" -> "END"

next_action_edge(route) ==
    CASE route = "continue" -> "coder"
      [] route = "complete" -> "reporter"

\* mutant: a failure counts twice
count_after_execution_double(count, success) ==
    IF ~success THEN count + 2 ELSE 0

\* mutant: a success does not reset the count
count_after_execution_keep(count, success) ==
    IF ~success THEN count + 1 ELSE count

\* lines 233-237, the error count after an execution
count_after_execution(count, success) ==
    IF ~success THEN count + 1 ELSE 0

\* mutant: the count is not reset when the cursor moves
advance_keep_count(index, count, results, retries) ==
    IF /\ results # <<>>
       /\ \/ Last(results).result.success
          \/ count >= retries
    THEN [index |-> index + 1, count |-> count]
    ELSE [index |-> index, count |-> count]

\* mutant: the cursor does not move
advance_stay(index, count, results, retries) ==
    [index |-> index, count |-> 0]

\* mutant: the cursor skips a task
advance_by_two(index, count, results, retries) ==
    IF /\ results # <<>>
       /\ \/ Last(results).result.success
          \/ count >= retries
    THEN [index |-> index + 2, count |-> 0]
    ELSE [index |-> index, count |-> count]

\* mutant: the cursor moves only after a success
advance_on_success(index, count, results, retries) ==
    IF results # <<>> /\ Last(results).result.success
    THEN [index |-> index + 1, count |-> 0]
    ELSE [index |-> index, count |-> count]

\* lines 419-423, the cursor and the error count after task_manager_node
advance(index, count, results, retries) ==
    IF /\ results # <<>>
       /\ \/ Last(results).result.success
          \/ count >= retries
    THEN [index |-> index + 1, count |-> 0]
    ELSE [index |-> index, count |-> count]

\* mutant: the log keeps the attempts of the current task only
log_after_per_task(results, entry) ==
    Append(SelectSeq(results, LAMBDA e : e.task = entry.task), entry)

\* lines 224-231, the log after an execution
log_after(results, entry) == Append(results, entry)

\* lines 184-207, the code text after coder_node's call of the collaborator
code_after_synthesis(response, basic_code) ==
    IF response = LLMError THEN basic_code
    ELSE extract_code(response, basic_code)

\* lines 279-301, the code text after code_revision_node's call
code_after_revision(response, code) ==
    IF response = LLMError THEN code
    ELSE extract_code(response, strip(response))

\* lines 344-354, the report after reporter_node's call
report_after_synthesis(response) ==
    IF response = LLMError THEN FallbackReport ELSE response[1]

\* mutant: a failed review discards the report
report_after_review_drop(response, text) ==
    IF response = LLMError THEN NoReport ELSE response[1]

\* lines 382-391, the report after reviewer_node's call
report_after_review(response, text) ==
    IF response = LLMError THEN text ELSE response[1]

\* mutant: the digest lists every attempt
results_summary_all(results) ==
    [i \in 1..Len(results) |->
        [task |-> results[i].task.description,
         output |-> results[i].result.output,
         figures_count |-> Len(results[i].result.figures)]]

\* lines 310-318, the digest of the successful attempts
results_summary(results) ==
    LET F[i \in 0..Len(results)] ==
            IF i = 0 THEN <<>>
            ELSE IF results[i].result.success
                 THEN Append(F[i - 1],
                             [task |-> results[i].task.description,
                              output |-> results[i].result.output,
                              figures_count |-> Len(results[i].result.figures)])
                 ELSE F[i - 1]
    IN  F[Len(results)]

\* not state["code_string"]
Falsy(code) == code = NoCode \/ code = <<>>

-----------------------------------------------------------------------------
(* agent.py: analyze and the nodes of the graph *)

\* analyze's result: "success" and "failure" are the two dicts it returns,
\* "escaped" an exception that leaves it; error is str(e)
Outcome(status, error) == [status |-> status, error |-> error]

InitialState ==
    /\ data_summary = NoSummary
    /\ plan = NoPlan
    /\ current_task_index = 0
    /\ code_string = NoCode
    /\ execution_results = <<>>
    /\ report = NoReport
    /\ error_count = 0
    /\ max_retries = InitialMaxRetries
    /\ completed = FALSE
    /\ node = "analyze"
    /\ steps = 0
    /\ visited = {}
    /\ outcome = Outcome("running", "")
    /\ llm_response = NoResponse
    /\ exec_call = NoCall
    /\ results_digest = <<>>

\* the collaborator of the run and what it may still do
Environment(kinds, odd, failures) ==
    /\ collaborator \in kinds
    /\ odd_left = odd
    /\ failures_left = failures

Init ==
    /\ dataframe \in RunDatasets \cup {NoDataframe}
    /\ InitialState
    /\ Environment(Collaborators, MaxOdd, MaxFailures)

\* a node may run: the graph is running and below the step ceiling
Running(n) == outcome.status = "running" /\ node = n /\ steps < RecursionLimit

\* the node returned and the graph follows the edge to next
Stepped(n, next) ==
    /\ node' = next
    /\ steps' = steps + 1
    /\ visited' = visited \cup {n}
    /\ outcome' = outcome

\* an exception left the node: analyze's except clause returns the failure,
\* unless it is not an Exception
Raised(kind, text) ==
    /\ outcome' = Outcome(IF kind = "Exception" THEN "failure" ELSE "escaped", text)
    /\ UNCHANGED <<node, steps, visited>>

\* lines 449-456: df.shape is read before the try block
analyze_begin ==
    /\ outcome.status = "running" /\ node = "analyze"
    /\ IF dataframe = NoDataframe
       THEN outcome' = Outcome("escaped", "AttributeError") /\ node' = node
       ELSE outcome' = outcome /\ node' = "situation_awareness"
    /\ UNCHANGED <<state_vars, steps, visited, env_vars>>

situation_awareness_node ==
    /\ Running("situation_awareness")
    /\ UNCHANGED env_vars
    /\ IF dataframe = NoDataframe
       THEN Raised("Exception", "ValueError") /\ UNCHANGED state_vars
       ELSE /\ data_summary' = get_data_summary(dataframe)
            /\ Stepped("situation_awareness", "planner")
            /\ UNCHANGED <<dataframe, plan, current_task_index, code_string,
                           execution_results, report, error_count, max_retries,
                           completed>>

truncate(tasks, n) == SubSeq(tasks, 1, IF Len(tasks) < n THEN Len(tasks) ELSE n)

planner_node ==
    /\ Running("planner")
    /\ UNCHANGED env_vars
    /\ plan' = truncate(generate_analysis_tasks(data_summary), PlannerTruncation)
    /\ current_task_index' = 0
    /\ execution_results' = <<>>
    /\ error_count' = 0
    /\ max_retries' = PlannerMaxRetries
    /\ Stepped("planner", "coder")
    /\ UNCHANGED <<dataframe, data_summary, code_string, report, completed>>

coder_node ==
    /\ Running("coder")
    /\ IF current_task_index >= Len(plan)
       THEN /\ completed' = TRUE
            /\ code_string' = code_string
            /\ NoCallMade
       ELSE /\ completed' = completed
            /\ \E response \in LLMOutcomes :
                 LET basic_code == create_analysis_code(plan[current_task_index + 1])
                 IN  /\ code_string' = code_after_synthesis(response, basic_code)
                     /\ Answered(response)
                     /\ UNCHANGED results_digest
    /\ Stepped("coder", "code_execution")
    /\ UNCHANGED <<dataframe, data_summary, plan, current_task_index,
                   execution_results, report, error_count, max_retries>>

code_execution_node ==
    /\ Running("code_execution")
    /\ IF Falsy(code_string)
       THEN /\ UNCHANGED state_vars
            /\ NoCallMade
            /\ Stepped("code_execution", after_execution_edge(
                    decide_after_execution(execution_results, error_count, max_retries)))
       ELSE IF current_task_index >= Len(plan)
       THEN Raised("Exception", "IndexError") /\ UNCHANGED <<state_vars, env_vars>>
       ELSE \E beh \in RunBehaviours :
            /\ Executed(beh)
            /\
              LET current_task == plan[current_task_index + 1]
                  execution_result ==
                      safe_code_execution(code_string, dataframe, current_task, beh)
                  result_with_task ==
                      [task |-> current_task, code |-> code_string,
                       result |-> execution_result]
              IN  IF execution_raises(beh) # "none"
                  THEN /\ Raised(execution_raises(beh), beh.message)
                       /\ dataframe' = caller_df(dataframe, exposed_df(dataframe), beh)
                       /\ UNCHANGED <<data_summary, plan, current_task_index,
                                      code_string, execution_results, report,
                                      error_count, max_retries, completed>>
                  ELSE /\ execution_results' = log_after(execution_results,
                                                          result_with_task)
                       /\ dataframe' = caller_df(dataframe, exposed_df(dataframe), beh)
                       /\ error_count' = count_after_execution(error_count,
                                                               execution_result.success)
                       /\ Stepped("code_execution", after_execution_edge(
                              decide_after_execution(execution_results', error_count',
                                                     max_retries)))
                       /\ UNCHANGED <<data_summary, plan, current_task_index,
                                      code_string, report, max_retries, completed>>

code_revision_node ==
    /\ Running("code_revision")
    /\ IF execution_results = <<>>
       THEN Raised("Exception", "IndexError") /\ UNCHANGED <<state_vars, env_vars>>
       ELSE /\ \E response \in LLMOutcomes :
                 /\ code_string' = code_after_revision(response, code_string)
                 /\ Answered(response)
                 /\ UNCHANGED results_digest
            /\ Stepped("code_revision", "code_execution")
            /\ UNCHANGED <<dataframe, data_summary, plan, current_task_index,
                           execution_results, report, error_count, max_retries,
                           completed>>

task_manager_node ==
    /\ Running("task_manager")
    /\ NoCallMade
    /\ LET after == advance(current_task_index, error_count, execution_results,
                             max_retries)
       IN  /\ current_task_index' = after.index
           /\ error_count' = after.count
    /\ Stepped("task_manager",
               next_action_edge(decide_next_action(current_task_index', plan)))
    /\ UNCHANGED <<dataframe, data_summary, plan, code_string, execution_results,
                   report, max_retries, completed>>

reporter_node ==
    /\ Running("reporter")
    /\ \E response \in ReportOutcomes(ReportTexts) :
         /\ report' = report_after_synthesis(response)
         /\ Answered(response)
    /\ results_digest' = results_summary(execution_results)
    /\ Stepped("reporter", "reviewer")
    /\ UNCHANGED <<dataframe, data_summary, plan, current_task_index, code_string,
                   execution_results, error_count, max_retries, completed>>

reviewer_node ==
    /\ Running("reviewer")
    /\ \E response \in ReportOutcomes(ReviewTexts) :
         /\ report' = report_after_review(response, report)
         /\ Answered(response)
         /\ UNCHANGED results_digest
    /\ Stepped("reviewer", "END")
    /\ UNCHANGED <<dataframe, data_summary, plan, current_task_index, code_string,
                   execution_results, error_count, max_retries, completed>>

\* mutant: the graph stops at the step ceiling and analyze returns its state
graph_recursion_error_silent ==
    /\ outcome.status = "running"
    /\ node \notin {"analyze", "END"}
    /\ steps >= RecursionLimit
    /\ outcome' = Outcome("success", "")
    /\ UNCHANGED <<state_vars, node, steps, visited, env_vars>>

\* the graph is out of steps with a node still to run: invoke raises
\* GraphRecursionError, which analyze's except clause returns as a failure
graph_recursion_error ==
    /\ outcome.status = "running"
    /\ node \notin {"analyze", "END"}
    /\ steps >= RecursionLimit
    /\ outcome' = Outcome("failure", "GraphRecursionError")
    /\ UNCHANGED <<state_vars, node, steps, visited, env_vars>>

\* lines 458-464
analyze_return ==
    /\ outcome.status = "running" /\ node = "END"
    /\ outcome' = Outcome("success", "")
    /\ UNCHANGED <<state_vars, node, steps, visited, env_vars>>

Next ==
    \/ analyze_begin
    \/ situation_awareness_node
    \/ planner_node
    \/ coder_node
    \/ code_execution_node
    \/ code_revision_node
    \/ task_manager_node
    \/ reporter_node
    \/ reviewer_node
    \/ graph_recursion_error
    \/ analyze_return

Spec == Init /\ [][Next]_vars

\* Profiling and planning alone, over every dataset of at most MaxCols columns
InitPlan ==
    /\ dataframe \in Datasets
    /\ InitialState
    /\ Environment(Collaborators, MaxOdd, MaxFailures)

NextPlan ==
    \/ analyze_begin
    \/ situation_awareness_node
    \/ planner_node

SpecPlan == InitPlan /\ [][NextPlan]_vars

\* The Executor alone, over the code of an inventive collaborator: the first
\* task of a run, where one attempt may raise an Exception and be revised
InitExec ==
    /\ dataframe \in RunDatasets
    /\ InitialState
    /\ Environment({"inventive"}, MaxOdd, 1)

NextExec ==
    \/ analyze_begin
    \/ situation_awareness_node
    \/ planner_node
    \/ coder_node
    \/ code_execution_node
    \/ code_revision_node

SpecExec == InitExec /\ [][NextExec]_vars

\* The extraction of the code alone, over the texts of a verbose
\* collaborator: the first task of a run, where one response may be any text
\* and one attempt may raise an Exception and be revised
InitExtract ==
    /\ dataframe \in RunDatasets
    /\ InitialState
    /\ Environment({"verbose"}, 1, 1)

NextExtract ==
    \/ analyze_begin
    \/ situation_awareness_node
    \/ planner_node
    \/ coder_node
    \/ code_execution_node
    \/ code_revision_node

SpecExtract == InitExtract /\ [][NextExtract]_vars

\* The runs in which no code text is empty, with as many failed executions as
\* the plan allows; the graph runs a node whenever one is due
InitSteps ==
    /\ dataframe \in RunDatasets
    /\ InitialState
    /\ Environment({"steady", "silent"}, MaxOdd, TaskCap * InitialMaxRetries)

NextSteps ==
    \/ analyze_begin
    \/ situation_awareness_node
    \/ planner_node
    \/ coder_node
    \/ code_execution_node
    \/ code_revision_node
    \/ task_manager_node
    \/ reporter_node
    \/ reviewer_node
    \/ analyze_return

SpecSteps == InitSteps /\ [][NextSteps]_vars /\ WF_vars(NextSteps)

-----------------------------------------------------------------------------
(* Properties *)

\* the attempts of the log that answer task t
TaskEntries(t) == SelectSeq(execution_results, LAMBDA e : e.task = t)

Succeeded(e) == e.result.success

AllFailed(es) == \A i \in 1..Len(es) : ~Succeeded(es[i])

HasCurrentTask == current_task_index < Len(plan)

CurrentTask == plan[current_task_index + 1]

\* the attempts of the current task: each call of the Executor appends one
CurrentEntries == TaskEntries(CurrentTask)

\* task_manager_node is about to run on a task all of whose attempts failed
AdvancingAfterFailures ==
    /\ Running("task_manager")
    /\ HasCurrentTask
    /\ CurrentEntries # <<>>
    /\ AllFailed(CurrentEntries)

\* C1 as stated: when the Controller advances past a task whose every
\* attempt failed, the Executor has run retry_limit + 1 times for that task.
C1_InvokedLimitPlusOne ==
    AdvancingAfterFailures => Len(CurrentEntries) = max_retries + 1

\* C1 amended: when the Controller advances past a task whose every attempt
\* failed, the Executor has run exactly retry_limit times for that task
\* (3 with the reference limit).
C1_InvokedLimitTimes ==
    AdvancingAfterFailures => Len(CurrentEntries) = max_retries

C1_Witness ==
    /\ AdvancingAfterFailures
    /\ Len(CurrentEntries) = 3
    /\ max_retries = 3

\* C2: in every state the consecutive-error counter is between 0 and the
\* retry limit.
C2_CounterWithinLimit ==
    /\ error_count >= 0
    /\ error_count <= max_retries

C2_Witness ==
    /\ Running("task_manager")
    /\ error_count = max_retries
    /\ ~Succeeded(Last(execution_results))

\* an Executing step that ran the Executor
ExecutedStep ==
    /\ Running("code_execution")
    /\ Len(execution_results') = Len(execution_results) + 1

\* C3: an Executing step whose attempt succeeded leaves the counter at 0, and
\* the counter is 0 whenever coder_node is entered.
C3_CounterReset ==
    [][ /\ (ExecutedStep /\ Succeeded(Last(execution_results'))) => error_count' = 0
        /\ node' = "coder" => error_count' = 0 ]_vars

\* coder_node is entered after an exhausted task, in a run where a success
\* followed a failure
C3_Witness ==
    /\ Running("coder")
    /\ execution_results # <<>>
    /\ ~Succeeded(Last(execution_results))
    /\ \E i \in 1..(Len(execution_results) - 1) :
         /\ ~Succeeded(execution_results[i])
         /\ Succeeded(execution_results[i + 1])
    /\ error_count = 0

\* the first two attempts of a task failed and the third succeeded
FailedTwiceThenSucceeded(es) ==
    /\ Len(es) >= 3
    /\ ~Succeeded(es[1])
    /\ ~Succeeded(es[2])
    /\ Succeeded(es[3])

\* C4: a task that fails twice and then succeeds has exactly 3 attempts in
\* the log, the last one a success, and the Advancing step that follows moves
\* the cursor by exactly 1 without adding to the log.
C4_ThirdAttemptSucceeds ==
    [][ /\ \A i \in 1..Len(plan') :
             FailedTwiceThenSucceeded(SelectSeq(execution_results',
                                                LAMBDA e : e.task = plan'[i]))
             => Len(SelectSeq(execution_results', LAMBDA e : e.task = plan'[i])) = 3
        /\ ( /\ Running("task_manager")
             /\ steps' = steps + 1
             /\ HasCurrentTask
             /\ FailedTwiceThenSucceeded(CurrentEntries) )
           => /\ Last(execution_results).task = CurrentTask
              /\ Succeeded(Last(execution_results))
              /\ current_task_index' = current_task_index + 1
              /\ execution_results' = execution_results ]_vars

C4_Witness ==
    /\ max_retries = 3
    /\ current_task_index = 2
    /\ FailedTwiceThenSucceeded(TaskEntries(plan[2]))
    /\ Len(TaskEntries(plan[2])) = 3

\* C5 as stated: in a run that was given a dataset, an Executing step is
\* followed by Revising exactly when the last attempt failed and the counter
\* is below the retry limit, and by Advancing otherwise.
C5_SuccessorOfExecuting ==
    [][ ( /\ Running("code_execution")
          /\ steps' = steps + 1
          /\ dataframe # NoDataframe )
        => LET failed == /\ execution_results' # <<>>
                         /\ ~Succeeded(Last(execution_results'))
           IN  /\ node' = "code_revision" <=> (failed /\ error_count' < max_retries')
               /\ node' # "code_revision" => node' = "task_manager" ]_vars

Fatal == {"copy", "GraphRecursionError"}

\* C6 as stated: a run that was given a dataset and returns either returns
\* success, after Reporting and Reviewing and with a report text, or returns
\* the failure of a fatal error.
C6_DoneAfterReport ==
    (dataframe # NoDataframe /\ outcome.status \in {"success", "failure"})
    => \/ /\ outcome.status = "success"
          /\ {"reporter", "reviewer"} \subseteq visited
          /\ report # NoReport
       \/ /\ outcome.status = "failure"
          /\ outcome.error \in Fatal

\* C7 as stated: without a dataset analyze returns the structured failure
\* and no exception leaves it.
C7_NoDatasetIsFailure ==
    dataframe = NoDataframe => outcome.status \in {"running", "failure"}

\* C8: every Advancing step moves the cursor by exactly 1 and sets the
\* counter to 0, after a success and after an exhausted task alike.
C8_AdvancingStep ==
    [][ (Running("task_manager") /\ steps' = steps + 1)
        => /\ current_task_index' = current_task_index + 1
           /\ error_count' = 0 ]_vars

\* the cursor has moved past an exhausted task and past a successful one
C8_Witness ==
    /\ "task_manager" \in visited
    /\ current_task_index = 2
    /\ AllFailed(TaskEntries(plan[1]))
    /\ Len(TaskEntries(plan[1])) = 3
    /\ Len(TaskEntries(plan[2])) = 1
    /\ Succeeded(Last(execution_results))
    /\ error_count = 0

Planned == "planner" \in visited

\* C9: the plan that planner_node stores has exactly 5 tasks, for every
\* profile, and is what generate_analysis_tasks returned.
C9_PlanLength ==
    Planned => /\ Len(plan) = 5
               /\ plan = generate_analysis_tasks(data_summary)

\* a profile with neither stats map
C9_Witness ==
    /\ Planned
    /\ data_summary.keys \cap {"numeric_stats", "categorical_info"} = {}
    /\ Len(dataframe) > 0
    /\ Len(plan) = 5

Min(a, b) == IF a < b THEN a ELSE b

\* the plan the specification describes, as <<task type, column>> pairs
ExpectedPlan(numeric, categorical) ==
    LET histograms == [i \in 1..Min(Len(numeric), 3) |-> <<"histogram", numeric[i]>>]
        correlation == IF Len(numeric) >= 2
                       THEN << <<"correlation_matrix", NoColumn>> >> ELSE <<>>
        bar_charts == [i \in 1..Len(categorical) |-> <<"bar_chart", categorical[i]>>]
        pads == [i \in 1..5 |-> <<"basic_info", NoColumn>>]
    IN  SubSeq(<< <<"basic_info", NoColumn>> >> \o histograms \o correlation
                  \o bar_charts \o pads, 1, 5)

PlanShape == [i \in 1..Len(plan) |-> <<plan[i].task_type, plan[i].column>>]

\* C10: the plan is the first 5 of: basic_info, a histogram of each of the
\* first three numeric columns, the correlation matrix when there are two
\* numeric columns or more, a bar chart of each categorical column, pads.
C10_PlanContents ==
    Planned => PlanShape = ExpectedPlan(select_dtypes(dataframe, {"number"}),
                                        select_dtypes(dataframe, {"object", "category"}))

\* scenario B: no numeric column and two categorical ones
C10_Witness ==
    /\ Planned
    /\ dataframe = <<"object", "other", "category">>
    /\ PlanShape = << <<"basic_info", NoColumn>>, <<"bar_chart", 1>>, <<"bar_chart", 3>>,
                      <<"basic_info", NoColumn>>, <<"basic_info", NoColumn>> >>

\* code_execution_node returned to the graph
ExecutingStep == Running("code_execution") /\ steps' = steps + 1

\* C11 as stated: every Executing step appends exactly one attempt to the log,
\* made from the task at the cursor and the current code text, and adds 1 to the
\* counter when that attempt failed and sets it to 0 when it succeeded.
C11_OneAttemptPerStep ==
    [][ ExecutingStep =>
          /\ HasCurrentTask
          /\ Len(execution_results') = Len(execution_results) + 1
          /\ SubSeq(execution_results', 1, Len(execution_results)) = execution_results
          /\ Last(execution_results').task = CurrentTask
          /\ Last(execution_results').code = code_string
          /\ error_count' = IF Succeeded(Last(execution_results')) THEN 0
                            ELSE error_count + 1 ]_vars

\* the node's call of the collaborator raised
CallFailed == llm_response' = LLMError

\* C12: when the collaborator's call fails the run is not aborted and the state
\* takes the documented default: coder_node keeps the baseline code,
\* code_revision_node leaves the code text unchanged, reporter_node records the
\* fixed fallback message, reviewer_node leaves the report unchanged; each node
\* is followed by the node that follows it on success.
C12_CollaboratorFailureDefaults ==
    [][ /\ (Running("coder") /\ HasCurrentTask /\ CallFailed)
            => /\ code_string' = create_analysis_code(CurrentTask)
               /\ node' = "code_execution" /\ outcome'.status = "running"
        /\ (Running("code_revision") /\ execution_results # <<>> /\ CallFailed)
            => /\ code_string' = code_string
               /\ node' = "code_execution" /\ outcome'.status = "running"
        /\ (Running("reporter") /\ CallFailed)
            => /\ report' = FallbackReport
               /\ node' = "reviewer" /\ outcome'.status = "running"
        /\ (Running("reviewer") /\ CallFailed)
            => /\ report' = report
               /\ node' = "END" /\ outcome'.status = "running" ]_vars

\* a run all of whose calls of the collaborator failed, a revision among them,
\* has returned the fallback report
C12_Witness ==
    /\ outcome.status = "success"
    /\ llm_response = LLMError
    /\ report = FallbackReport
    /\ "code_revision" \in visited
    /\ \A i \in 1..Len(execution_results) :
           execution_results[i].code = create_analysis_code(execution_results[i].task)

\* C13: a call of safe_code_execution leaves the Controller's dataset as it
\* was, whatever the code does to the df it is handed, so that every call
\* starts from the same data.
C13_DatasetUnchanged ==
    [][ Running("code_execution") => dataframe' = dataframe ]_vars

\* the second call of a run has returned, its code changed its df in place,
\* and the dataset is the one the run was given
C13_Witness ==
    /\ Len(execution_results) >= 2
    /\ exec_call.mutates /\ resolves(exec_call.uses)
    /\ dataframe \in RunDatasets

\* code_execution_node calls safe_code_execution in this step
ExecutorCalled ==
    /\ Running("code_execution")
    /\ ~Falsy(code_string)
    /\ HasCurrentTask
    /\ exec_call'.copy_ok

\* built-ins of the language that the allow-list leaves out
OutsideAllowList == {"open", "eval"}

\* C14: a call whose code reads a name outside the allow-listed built-ins and
\* library handles returns an attempt with success = false and an error text,
\* and the run goes on to revise the code or to the next task.
C14_NamespaceClosure ==
    [][ (ExecutorCalled /\ exec_call'.uses \in OutsideAllowList)
        => /\ Len(execution_results') = Len(execution_results) + 1
           /\ ~Last(execution_results').result.success
           /\ Last(execution_results').result.error # ""
           /\ outcome'.status = "running"
           /\ node' \in {"code_revision", "task_manager"} ]_vars

\* code that reads open has failed with a NameError and is to be revised
C14_Witness ==
    /\ node = "code_revision"
    /\ exec_call.uses = "open"
    /\ execution_results # <<>>
    /\ Last(execution_results).result.error = "NameError"

\* C15 as stated: every call whose code raises returns, without raising, an
\* attempt with success = false, the error's description as error, the stderr
\* buffer as output, and no figures and no variables.
C15_RaisingCodeReturns ==
    [][ (ExecutorCalled /\ exec(exec_call').raises # "none")
        => /\ outcome'.status = "running"
           /\ Len(execution_results') = Len(execution_results) + 1
           /\ Last(execution_results').result =
                [success |-> FALSE, output |-> exec_call'.stderr,
                 error |-> exec(exec_call').message,
                 figures |-> <<>>, variables |-> {}] ]_vars

\* the names of a sequence of names
Range(seq) == {seq[i] : i \in 1..Len(seq)}

\* the assignments of beh to name
Assignments(beh, name) == {i \in 1..Len(beh.bindings) : beh.bindings[i].name = name}

\* the value name is bound to when the code has run: its last assignment, or
\* the initial value
FinalKind(beh, name) ==
    IF Assignments(beh, name) = {}
    THEN IF name = "df" THEN "frame" ELSE "module"
    ELSE LET last == CHOOSE i \in Assignments(beh, name) :
                        \A j \in Assignments(beh, name) : j <= i
         IN  beh.bindings[last].kind

\* C16: after a call that succeeded, every name bound to a chart object is in
\* figures and no name bound to a plain number or string is; no name is listed
\* twice in figures or in both figures and variables; and none of the initial
\* names is in variables.
C16_FiguresAndVariables ==
    [][ (ExecutorCalled /\ Len(execution_results') = Len(execution_results) + 1
           /\ Last(execution_results').result.success)
        => LET result == Last(execution_results').result
               names == Range(InitialNames) \cup BoundNames
           IN  /\ \A n \in names :
                     /\ FinalKind(exec_call', n) = "figure" => n \in Range(result.figures)
                     /\ FinalKind(exec_call', n) = "plain" => n \notin Range(result.figures)
               /\ Cardinality(Range(result.figures)) = Len(result.figures)
               /\ Range(result.figures) \cap result.variables = {}
               /\ Range(InitialNames) \cap result.variables = {} ]_vars

\* code that bound fig to a figure and df to a number has succeeded: fig is the
\* one figure and df is not among the variables
C16_Witness ==
    /\ execution_results # <<>>
    /\ Last(execution_results).result.success
    /\ Len(exec_call.bindings) = 2
    /\ \E b \in Range(exec_call.bindings) : b.name = "df" /\ b.kind = "plain"
    /\ Last(execution_results).result.figures = <<"fig">>
    /\ Last(execution_results).result.variables = {}

\* C17: a run that has used up the step ceiling with a node still to run is
\* aborted and analyze returns a failure that names the error; analyze returns
\* success only for a run that reached the end of the graph.
C17_CeilingIsFailure ==
    /\ (steps >= RecursionLimit /\ node \notin {"analyze", "END"}
           /\ outcome.status # "running")
        => outcome = Outcome("failure", "GraphRecursionError")
    /\ outcome.status = "success" => node = "END"

\* a run of revisions that never produced code has used up the ceiling
C17_Witness ==
    /\ steps = RecursionLimit
    /\ node \in {"code_execution", "code_revision"}
    /\ outcome = Outcome("failure", "GraphRecursionError")

\* the successful attempts of the log, in the order of the log
SuccessfulEntries == SelectSeq(execution_results, Succeeded)

\* C18: the digest built by reporter_node has one element for each attempt of
\* the log that succeeded, in the order of the log, with the task's
\* description, the attempt's output and the number of its figures; failed
\* attempts contribute no element.
C18_DigestOfSuccesses ==
    "reporter" \in visited
    => /\ Len(results_digest) = Len(SuccessfulEntries)
       /\ \A i \in 1..Len(SuccessfulEntries) :
             /\ results_digest[i].task = SuccessfulEntries[i].task.description
             /\ results_digest[i].output = SuccessfulEntries[i].result.output
             /\ results_digest[i].figures_count =
                   Len(SuccessfulEntries[i].result.figures)

\* the report was written from a log of failed and successful attempts on
\* several tasks
C18_Witness ==
    /\ "reporter" \in visited
    /\ Len(results_digest) >= 2
    /\ Len(results_digest) < Len(execution_results)
    /\ results_digest[1].task # results_digest[2].task
    /\ results_digest[1].figures_count = 1

\* the text of the block opened by the fence at position i: what follows the
\* fence, up to the next fence or to the end of the response, stripped
BlockAt(content, i) ==
    LET closing == {j \in (i + 1)..Len(content) : content[j] \in Fences}
        end == IF closing = {} THEN Len(content) + 1
               ELSE CHOOSE j \in closing : \A k \in closing : j <= k
    IN  strip(SubSeq(content, i + 1, end - 1))

\* the first position of content that holds one of toks
First(content, toks) ==
    CHOOSE i \in 1..Len(content) :
        content[i] \in toks /\ \A j \in 1..(i - 1) : content[j] \notin toks

\* the code text C19 gives for a response
Extracted(content, no_fence) ==
    IF Contains(content, {FencePython})
    THEN BlockAt(content, First(content, {FencePython}))
    ELSE IF Contains(content, Fences)
    THEN BlockAt(content, First(content, Fences))
    ELSE no_fence

\* C19 as stated: from a response without a fence code_revision_node takes the
\* whole response, stripped, and coder_node takes the baseline code; from a
\* response with a python-tagged fence both take the text of the first
\* python-tagged block, and otherwise the text of the first fenced block.
C19_Extraction ==
    [][ /\ (Running("coder") /\ HasCurrentTask /\ ~CallFailed)
            => code_string' =
                 Extracted(llm_response', create_analysis_code(CurrentTask))
        /\ (Running("code_revision") /\ execution_results # <<>> /\ ~CallFailed)
            => code_string' = Extracted(llm_response', strip(llm_response')) ]_vars

\* C21: once planner_node has run no step changes the plan or max_retries,
\* every step leaves the cursor as it is or adds 1 to it, and the cursor is
\* between 0 and the length of the plan in every state.
C21_PlanFixedCursorMonotone ==
    /\ [](0 <= current_task_index /\ current_task_index <= Len(plan))
    /\ [][ "planner" \in visited
            => /\ plan' = plan
               /\ max_retries' = max_retries
               /\ current_task_index' \in {current_task_index,
                                            current_task_index + 1} ]_vars

\* the cursor has moved past the last task of the plan
C21_Witness ==
    /\ "planner" \in visited
    /\ plan # <<>>
    /\ current_task_index = Len(plan)
    /\ node = "reporter"

\* C22: once planner_node has run, every step leaves the entries of the log as
\* they are and in their order, and changes the log only by appending one
\* entry at its end.
C22_LogAppendOnly ==
    [][ "planner" \in visited
        => \/ execution_results' = execution_results
           \/ /\ Len(execution_results') = Len(execution_results) + 1
              /\ SubSeq(execution_results', 1, Len(execution_results))
                    = execution_results ]_vars

\* the log holds attempts of two tasks, a failed one among them
C22_Witness ==
    /\ "planner" \in visited
    /\ Len(execution_results) >= 3
    /\ execution_results[1].task # Last(execution_results).task
    /\ \E i \in 1..Len(execution_results) : ~Succeeded(execution_results[i])

\* the length of the longest suffix of the log whose entries are all failed
\* attempts of task t
RECURSIVE TrailingFailures(_, _)
TrailingFailures(results, t) ==
    IF results # <<>> /\ Last(results).task = t /\ ~Succeeded(Last(results))
    THEN 1 + TrailingFailures(SubSeq(results, 1, Len(results) - 1), t)
    ELSE 0

\* the failed attempts that immediately precede, for the task at the cursor
PrecedingFailures ==
    IF HasCurrentTask THEN TrailingFailures(execution_results, CurrentTask) ELSE 0

\* C23: when decide_after_execution is evaluated (the state code_execution_node
\* returns) and when task_manager_node is entered, error_count is the number
\* of failed attempts of the task at the cursor that end the log.
C23_CounterIsTrailingFailures ==
    /\ [](node = "task_manager" => error_count = PrecedingFailures)
    /\ [][ ExecutingStep => error_count' = PrecedingFailures' ]_vars

\* task_manager_node is entered on a task given up after max_retries failures,
\* the task before it having been given up as well
C23_Witness ==
    /\ node = "task_manager"
    /\ error_count = max_retries
    /\ Len(execution_results) = 2 * max_retries
    /\ AllFailed(execution_results)

\* situation_awareness_node has stored the profile of the dataset
Profiled == data_summary # NoSummary

\* C24: in the profile no column is both in numeric_stats and in
\* categorical_info; the columns of the two maps are columns of the dataset,
\* each listed once.
C24_ProfileMapsDisjoint ==
    Profiled
    => /\ Range(data_summary.numeric_stats)
            \cap Range(data_summary.categorical_info) = {}
       /\ Range(data_summary.numeric_stats) \cup Range(data_summary.categorical_info)
            \subseteq 1..Len(dataframe)
       /\ Cardinality(Range(data_summary.numeric_stats))
            = Len(data_summary.numeric_stats)
       /\ Cardinality(Range(data_summary.categorical_info))
            = Len(data_summary.categorical_info)

\* the profile of a dataset with a numeric column, a categorical column and a
\* column that is in neither map
C24_Witness ==
    /\ Profiled
    /\ data_summary.numeric_stats # <<>>
    /\ data_summary.categorical_info # <<>>
    /\ \E c \in 1..Len(dataframe) :
          c \notin Range(data_summary.numeric_stats)
                     \cup Range(data_summary.categorical_info)

\* C25 as stated: whenever decide_after_execution is evaluated on a log that
\* has entries, the last entry is an attempt of the task at the cursor, so that
\* the decision for a task is never taken from an attempt of an earlier task,
\* also when the code text is empty.
C25_DecisionOnCurrentTask ==
    [][ (ExecutingStep /\ execution_results' # <<>>)
        => /\ HasCurrentTask
           /\ Last(execution_results').task = CurrentTask ]_vars

\* the Executor was called for the i-th task of the plan
Attempted(i) == TaskEntries(plan[i]) # <<>>

\* C26 as stated: the cursor is never past a task of the plan that has no
\* entry in the log, and in a run that has returned with success every task of
\* the plan has an entry.
C26_EveryTaskAttempted ==
    /\ \A i \in 1..Len(plan) : i <= current_task_index => Attempted(i)
    /\ outcome.status = "success" => \A i \in 1..Len(plan) : Attempted(i)

\* C27: every task of the plan has at most max_retries entries in the log, at
\* most one of them a success, and a success is the last entry of its task; the
\* log holds at most Len(plan) * max_retries entries.
C27_AttemptsPerTask ==
    /\ \A i \in 1..Len(plan) :
          LET es == TaskEntries(plan[i])
          IN  /\ Len(es) <= max_retries
              /\ \A j \in 1..Len(es) : Succeeded(es[j]) => j = Len(es)
    /\ Len(execution_results) <= Len(plan) * max_retries

\* one task was given up after max_retries failures and another succeeded at
\* its last permitted attempt
C27_Witness ==
    /\ plan # <<>>
    /\ \E i, k \in 1..Len(plan) :
          /\ Len(TaskEntries(plan[i])) = max_retries
          /\ AllFailed(TaskEntries(plan[i]))
          /\ Len(TaskEntries(plan[k])) = max_retries
          /\ Succeeded(Last(TaskEntries(plan[k])))

\* 2 steps to profile and plan, for every task the synthesis, max_retries
\* executions with a revision between them and the advance, 2 steps to report
\* and review
StepBound == 2 + TaskCap * (2 * InitialMaxRetries + 1) + 2

C29_CoderHasTask ==
    /\ node = "coder" => HasCurrentTask
    /\ completed = FALSE

\* a run has returned with the cursor at the end of the plan, after
\* task_manager_node routed to reporter_node, and completed is still false
C29_Witness ==
    /\ outcome.status = "success"
    /\ "reporter" \in visited
    /\ plan # <<>>
    /\ current_task_index = Len(plan)
    /\ completed = FALSE

====
